---- MODULE Spec2Model ----
(***************************************************************************)
(* Smart waste bin telemetry server (server/src/main.py, utils.py):        *)
(* the fill classifier, the per-device alert debouncer alert_eval, the     *)
(* command enqueuer, the settings endpoint and the ingestion handler.      *)
(*                                                                         *)
(* app.run serves every request in a thread of its own and the handlers    *)
(* take no lock, so a handler is a sequence of steps and the steps of the  *)
(* handlers in flight interleave.  A step ends where an interpreter may    *)
(* switch threads: at the entry of a Python function, after a call has     *)
(* returned and at a taken conditional jump.                               *)
(*                                                                         *)
(* Distances, thresholds and times are integers (cm, seconds).  The        *)
(* partial threshold threshold * 1.33 is compared as 100*d <= 133*t.       *)
(* Optional[float] is a sequence of length 0 (None) or 1.                  *)
(***************************************************************************)
EXTENDS Integers, Sequences, FiniteSets, TLC

\* ---------------------------------------------------------------- bounds
MaxTime == 2
MaxSeq == 2
MaxCm == 6
MaxPosts == 2

\* ------------------------------------------------------------- constants
DEFAULT_THRESHOLD_CM == 5
DEFAULT_ALERT_SUSTAIN_SEC == 3

Devices == {"A", "B"}

None == << >>
Some(v) == << v >>

\* ------------------------------------------------------ JSON field values
Num(n) == [kind |-> "number", parses |-> TRUE, num |-> n]
NumStr(n) == [kind |-> "str", parses |-> TRUE, num |-> n]
BadStr == [kind |-> "str", parses |-> FALSE, num |-> 0]
Null == [kind |-> "null", parses |-> FALSE, num |-> 0]
JList == [kind |-> "list", parses |-> FALSE, num |-> 0]
Absent == [kind |-> "absent", parses |-> FALSE, num |-> 0]

\* dict.get(key): a missing key reads as None
Get(val) == IF val.kind = "absent" THEN Null ELSE val

\* mutant: null reads as 0
pfloat_nullzero(val, default) ==
  IF val.kind = "number" THEN Some(val.num)
  ELSE IF val.kind = "str" THEN (IF val.parses THEN Some(val.num) ELSE default)
  ELSE IF val.kind = "null" THEN Some(0)
  ELSE default

\* mutant: a string float() rejects reads as 0
pfloat_zero(val, default) ==
  IF val.kind = "number" THEN Some(val.num)
  ELSE IF val.kind = "str" THEN Some(val.num)
  ELSE default

\* utils.pfloat: numbers convert, strings are parsed, anything else (or a
\* string float() rejects) gives the default
pfloat(val, default) ==
  IF val.kind = "number" THEN Some(val.num)
  ELSE IF val.kind = "str" THEN (IF val.parses THEN Some(val.num) ELSE default)
  ELSE default

\* mutant: no clamping
Clamp0_asis(x) == x

\* max(0.0, float(x))
Clamp0(x) == IF x < 0 THEN 0 ELSE x

\* the idiom  pfloat(settings.get(k), D) or D  : None and 0.0 are falsy
OrDefault(p, dflt) == IF p = None THEN dflt ELSE IF p[1] = 0 THEN dflt ELSE p[1]

SettingOr(v, dflt) == OrDefault(pfloat(Num(v), Some(dflt)), dflt)

\* ------------------------------------------------------------- the state
VARIABLES
  DEFAULT_EMPTY_THRESHOLD_CM, \* imported from utils, which does not define it:
                        \* None when the import failed, else the value supplied
  settings,             \* main.settings
  clock,                \* datetime.now(), seconds
  webhook,              \* DISCORD_WEBHOOK_URL is set
  alert_below_since,    \* device -> Optional time
  alert_sent,           \* device -> BOOLEAN
  alert_partial_since,
  alert_partial_sent,
  alert_empty_since,
  alert_empty_sent,
  since_keys,           \* device -> the conditions whose since dictionary has
                        \* an entry for it (a defaultdict creates it on demand)
  device_command_seq,   \* device -> Nat
  device_commands,      \* device -> Optional command
  device_data,          \* device -> Optional latest reading
  handlers,             \* thread -> position and locals of its request handler
  dwell,                \* history: device -> current run of same-band readings
  issued,               \* history: device -> commandIds the enqueue_command calls took, in order
  call,                 \* a direct call of a function: arguments and result
  device_last_id        \* device -> commandId of the last command it received

vars == << DEFAULT_EMPTY_THRESHOLD_CM, settings, clock, webhook, alert_below_since,
           alert_sent, alert_partial_since, alert_partial_sent, alert_empty_since,
           alert_empty_sent, since_keys, device_command_seq, device_commands,
           device_data, handlers, dwell, issued, call, device_last_id >>

alertVars == << alert_below_since, alert_sent, alert_partial_since,
                alert_partial_sent, alert_empty_since, alert_empty_sent,
                since_keys >>

\* what no step of a handler changes
envVars == << DEFAULT_EMPTY_THRESHOLD_CM, webhook, device_last_id >>

\* what the import of DEFAULT_EMPTY_THRESHOLD_CM gives.  utils.py does not
\* define the name, so the import raises ImportError and the process ends
\* before any of its state exists (None); where the name is supplied it is a
\* distance: the literal 15 that sensor_in and GET /api/settings use, or
\* another one
EmptyDefaults == {None, Some(15), Some(10)}

\* the import fails, or the name holds the literal 15
LiteralDefault == {None, Some(15)}

\* the imports of main.py succeeded and the process runs
Imported == DEFAULT_EMPTY_THRESHOLD_CM # None

\* ---------------------------------------------------------- settings file
DefaultCfg ==
  [thresholdCm |-> DEFAULT_THRESHOLD_CM,
   alertSustainSec |-> DEFAULT_ALERT_SUSTAIN_SEC,
   emptyThresholdCm |-> DEFAULT_EMPTY_THRESHOLD_CM[1]]

load_cfg(file) ==
  IF ~file.exists THEN DefaultCfg
  ELSE IF ~file.valid THEN DefaultCfg
  ELSE
    LET t == OrDefault(pfloat(Get(file.thresholdCm), Some(DEFAULT_THRESHOLD_CM)),
                       DEFAULT_THRESHOLD_CM)
        s == OrDefault(pfloat(Get(file.alertSustainSec), Some(DEFAULT_ALERT_SUSTAIN_SEC)),
                       DEFAULT_ALERT_SUSTAIN_SEC)
        e == OrDefault(pfloat(Get(file.emptyThresholdCm), DEFAULT_EMPTY_THRESHOLD_CM),
                       DEFAULT_EMPTY_THRESHOLD_CM[1])
    IN [thresholdCm |-> Clamp0(t), alertSustainSec |-> Clamp0(s),
        emptyThresholdCm |-> Clamp0(e)]

CfgFile(ex, ok, t, s, e) ==
  [exists |-> ex, valid |-> ok, thresholdCm |-> t, alertSustainSec |-> s,
   emptyThresholdCm |-> e]

\* a settings file with a short sustain, a zero threshold and an empty threshold
ShortSustainFile == CfgFile(TRUE, TRUE, Num(0), Num(1), Num(15))

\* a settings file with the default threshold and a short sustain
BandsFile == CfgFile(TRUE, TRUE, Num(5), Num(1), Num(15))

\* no settings file
NoFile == CfgFile(FALSE, FALSE, Absent, Absent, Absent)

\* the settings files the process is started with: none, corrupt, valid
StartFiles ==
  { NoFile,
    CfgFile(TRUE, FALSE, Absent, Absent, Absent),
    ShortSustainFile }

\* settings files with negative, zero and positive values, none, corrupt
SettingsFiles ==
  { CfgFile(TRUE, TRUE, Num(t), Num(s), Num(e)) :
      t \in {-2, 0, 6}, s \in {-2, 0, 6}, e \in {-2, 0, 6} }
    \cup { CfgFile(FALSE, FALSE, Absent, Absent, Absent),
           CfgFile(TRUE, FALSE, Absent, Absent, Absent) }

\* ------------------------------------------------------ command enqueuer
NoPayload == [action |-> "none", targetPosition |-> None]
Payload(a, t) == [action |-> a, targetPosition |-> t]

\* the command record of enqueue_command (serverTimestamp is not modelled)
Command(dev, id, payload) ==
  [deviceId |-> dev, commandId |-> id, action |-> payload.action,
   targetPosition |-> payload.targetPosition]

\* mutant: the counter is not advanced
NextSeq_stuck(n) == n

\* device_command_seq[device_id] += 1
NextSeq(n) == n + 1

\* mutant: the command is stored for every device
SetCommand_all(cmds, dev, command) == [d \in DOMAIN cmds |-> Some(command)]

\* device_commands[device_id] = command
SetCommand(cmds, dev, command) == [cmds EXCEPT ![dev] = Some(command)]

\* ------------------------------------------------------------- notifier
NetOutcomes == {"ok", "http_error", "conn_error"}

\* discord_send: no webhook -> return; requests.post may raise (outside the
\* try); an HTTP error status is swallowed by the try around raise_for_status
discord_send(hook, net) ==
  IF ~hook THEN "skipped"
  ELSE IF net = "conn_error" THEN "raised"
  ELSE IF net = "http_error" THEN "swallowed"
  ELSE "delivered"

\* the outcomes of discord_send in which requests.post was called
Posted == {"delivered", "swallowed", "raised"}

\* ---------------------------------------------------------- fill classifier
\* mutant: the empty threshold is tested before the partial threshold
calculate_fill_status_emptyfirst(distance, threshold, empty_threshold) ==
  IF distance = None THEN "unknown"
  ELSE IF distance[1] <= threshold THEN "full"
  ELSE IF distance[1] >= empty_threshold THEN "empty"
  ELSE "partial"

calculate_fill_status(distance, threshold, empty_threshold) ==
  IF distance = None THEN "unknown"
  ELSE IF distance[1] <= threshold THEN "full"
  ELSE IF distance[1] * 100 <= threshold * 133 THEN "partial"
  ELSE IF distance[1] >= empty_threshold THEN "empty"
  ELSE "partial"

\* ----------------------------------------------------------- alert debouncer
\* the if / elif chain of alert_eval
Band(d, threshold, empty_threshold) ==
  IF d <= threshold THEN "full"
  ELSE IF d * 100 <= threshold * 133 THEN "partial"
  ELSE IF d >= empty_threshold THEN "empty"
  ELSE "normal"

AlertBands == {"full", "partial", "empty"}

\* (sustain <= 0 or elapsed >= sustain) and not sent
ShouldFire(sustain, elapsed, sent) ==
  (sustain <= 0 \/ elapsed >= sustain) /\ ~sent

\* the three settings as alert_eval reads them
EffThreshold(cfg) == SettingOr(cfg.thresholdCm, DEFAULT_THRESHOLD_CM)

EffSustain(cfg) == SettingOr(cfg.alertSustainSec, DEFAULT_ALERT_SUSTAIN_SEC)

EffEmptyThreshold(cfg) == SettingOr(cfg.emptyThresholdCm, DEFAULT_EMPTY_THRESHOLD_CM[1])

\* the two thresholds as sensor_in reads them
IngestThreshold(cfg) == SettingOr(cfg.thresholdCm, 5)

IngestEmptyThreshold(cfg) == SettingOr(cfg.emptyThresholdCm, 15)

NotifyAction(cond) ==
  IF cond = "full" THEN "notifyFull"
  ELSE IF cond = "partial" THEN "notifyPartial"
  ELSE "notifyEmpty"

\* the six alert values of a device, and the since entries it has
AlertState(d) ==
  [below_since |-> alert_below_since[d], sent |-> alert_sent[d],
   partial_since |-> alert_partial_since[d], partial_sent |-> alert_partial_sent[d],
   empty_since |-> alert_empty_since[d], empty_sent |-> alert_empty_sent[d],
   keys |-> since_keys[d]]

\* the dictionaries after the entries of device d were assigned from st
SetAlertState(d, st) ==
  /\ alert_below_since' = [alert_below_since EXCEPT ![d] = st.below_since]
  /\ alert_sent' = [alert_sent EXCEPT ![d] = st.sent]
  /\ alert_partial_since' = [alert_partial_since EXCEPT ![d] = st.partial_since]
  /\ alert_partial_sent' = [alert_partial_sent EXCEPT ![d] = st.partial_sent]
  /\ alert_empty_since' = [alert_empty_since EXCEPT ![d] = st.empty_since]
  /\ alert_empty_sent' = [alert_empty_sent EXCEPT ![d] = st.empty_sent]
  /\ since_keys' = [since_keys EXCEPT ![d] = st.keys]

\* the since and the sent flag of condition c in an alert state
SinceOf(st, c) ==
  IF c = "full" THEN st.below_since
  ELSE IF c = "partial" THEN st.partial_since
  ELSE st.empty_since

SentOf(st, c) ==
  IF c = "full" THEN st.sent
  ELSE IF c = "partial" THEN st.partial_sent
  ELSE st.empty_sent

\* x_since[device_id] = v : the entry exists afterwards
SetSince(st, c, v) ==
  LET st1 == [st EXCEPT !.keys = st.keys \cup {c}]
  IN IF c = "full" THEN [st1 EXCEPT !.below_since = v]
     ELSE IF c = "partial" THEN [st1 EXCEPT !.partial_since = v]
     ELSE [st1 EXCEPT !.empty_since = v]

\* since = x_since[device_id]; if since is None: x_since[device_id] = now
StartSince(st, c, now) ==
  IF SinceOf(st, c) # None THEN st ELSE SetSince(st, c, Some(now))

\* alert_below_since[device_id] = None; alert_sent[device_id] = False
ResetFull(st) == [SetSince(st, "full", None) EXCEPT !.sent = FALSE]

ResetEmpty(st) == [SetSince(st, "empty", None) EXCEPT !.empty_sent = FALSE]

ResetPartial(st) == [SetSince(st, "partial", None) EXCEPT !.partial_sent = FALSE]

\* x_sent[device_id] = True after the enqueue
MarkSent(st, c) ==
  IF c = "full" THEN [st EXCEPT !.sent = TRUE]
  ELSE IF c = "partial" THEN [st EXCEPT !.partial_sent = TRUE]
  ELSE [st EXCEPT !.empty_sent = TRUE]

\* the two unconditional resets that end an alert branch
ResetLast(st, band) ==
  IF band = "full" THEN ResetPartial(ResetEmpty(st))
  ELSE IF band = "partial" THEN ResetEmpty(st)
  ELSE ResetPartial(st)

\* ------------------------------------------------------------------ inputs
\* POST /api/sensor-data requests: bearer token ok, deviceId, distance
SensorRequest(auth, dev, distance) == [auth |-> auth, deviceId |-> dev, distance |-> distance]

\* POST /api/settings bodies: thresholdCm, emptyThresholdCm, alertSustainSec
SettingsBody(t, e, s) == [thresholdCm |-> t, emptyThresholdCm |-> e, alertSustainSec |-> s]

NoBody == SettingsBody(Absent, Absent, Absent)

\* POST /api/command requests: basic auth ok, deviceId, action, targetPosition
CommandRequest(auth, dev, a, t) ==
  [auth |-> auth, deviceId |-> dev, action |-> a, targetPosition |-> t]

\* ---------------------------------------------------------- history records
\* band: the band of the reading of the device that alert_eval matched last;
\* start: the time of the first reading of the current run of readings in
\* that band; fires: the commands alert_eval enqueued for readings of the run;
\* posts: the webhook posts made for readings of the run; rearmed: a fired
\* full alert was cleared by a reading in the empty band
NoDwell == [band |-> "none", start |-> 0, fires |-> 0, posts |-> 0, rearmed |-> FALSE]

\* the run of consecutive same-band readings after a reading in band b
NextDwell(dw, b, now) ==
  IF dw.band = b THEN dw
  ELSE [band |-> b, start |-> now, fires |-> 0, posts |-> 0, rearmed |-> dw.rearmed]

\* a direct call of a function
NoCall == [fn |-> "none", args |-> << >>, result |-> "none"]

\* ------------------------------------------------------- request handlers
\* app.run serves each request in a thread of its own; two are modelled
Threads == {"t1", "t2"}

\* a thread between requests.  route: the handler it runs; pc: the statement
\* it executes next; the other fields are the handler's locals, kept while a
\* later statement uses them.  configured: the alertSustainSec the settings
\* held when sustain was read; changed: the settings request has altered a
\* stored setting; fired: the reading passed the firing test; live: no
\* reading in another band of the same device was matched since this reading
\* was (history)
IdleHandler ==
  [route |-> "none", pc |-> "idle", deviceId |-> "", distance |-> None, thr |-> 0,
   empty_thr |-> 0, fill_status |-> "none", threshold |-> 0, configured |-> 0, sustain |-> 0,
   now |-> 0,
   band |-> "none", since |-> 0, payload |-> NoPayload, cmd_id |-> 0,
   body |-> NoBody, updated_any |-> FALSE, changed |-> FALSE, fired |-> FALSE,
   live |-> FALSE]

\* thread th goes on with the locals rec
Goto(th, rec) == handlers' = [handlers EXCEPT ![th] = rec]

\* the handler of thread th returns its response
Return(th) == handlers' = [handlers EXCEPT ![th] = IdleHandler]

\* -------------------------------------------------------------------- Init
\* the process started with one of the settings files: when the import of
\* main.py 16-29 fails nothing after it is executed, no settings are loaded
\* and no request is ever served
Start(files, defaults) ==
  /\ DEFAULT_EMPTY_THRESHOLD_CM \in defaults
  /\ IF Imported THEN \E file \in files : settings = load_cfg(file)
     ELSE settings = None
  /\ clock = 0
  /\ webhook \in BOOLEAN
  /\ alert_below_since = [d \in Devices |-> None]
  /\ alert_sent = [d \in Devices |-> FALSE]
  /\ alert_partial_since = [d \in Devices |-> None]
  /\ alert_partial_sent = [d \in Devices |-> FALSE]
  /\ alert_empty_since = [d \in Devices |-> None]
  /\ alert_empty_sent = [d \in Devices |-> FALSE]
  /\ since_keys = [d \in Devices |-> {}]
  /\ device_command_seq = [d \in Devices |-> 0]
  /\ device_commands = [d \in Devices |-> None]
  /\ device_data = [d \in Devices |-> None]
  /\ handlers = [th \in Threads |-> IdleHandler]
  /\ dwell = [d \in Devices |-> NoDwell]
  /\ issued = [d \in Devices |-> << >>]
  /\ call = NoCall
  /\ device_last_id = [d \in Devices |-> 0]

Init == Start(StartFiles, EmptyDefaults)

\* ----------------------------------------------------------------- actions
\* A step below is a run of statements between two points at which an
\* interpreter may switch threads, with the reads and writes of shared state
\* it makes; runs that touch no shared state are joined to the step after.

\* mutant: a timer clears the full dwells as time passes
Tick_expire ==
  /\ Imported
  /\ clock < MaxTime
  /\ clock' = clock + 1
  /\ alert_below_since' = [d \in Devices |-> None]
  /\ UNCHANGED << envVars, settings, alert_sent, alert_partial_since,
                  alert_partial_sent, alert_empty_since, alert_empty_sent,
                  since_keys, device_command_seq, device_commands, device_data,
                  handlers, dwell, issued, call >>

\* time passes
Tick ==
  /\ Imported
  /\ clock < MaxTime
  /\ clock' = clock + 1
  /\ UNCHANGED << envVars, settings, alertVars, device_command_seq,
                  device_commands, device_data, handlers, dwell, issued, call >>

\* POST /api/sensor-data up to the read of thresholdCm: 401 without the
\* bearer token, else the distance is parsed and thr is read
sensor_in(th, req) ==
  /\ Imported
  /\ handlers[th].pc = "idle"
  /\ IF ~req.auth THEN UNCHANGED vars
     ELSE /\ Goto(th, [IdleHandler EXCEPT
                         !.route = "sensor", !.pc = "sensor_empty_thr",
                         !.deviceId = req.deviceId,
                         !.distance = pfloat(Get(req.distance), None),
                         !.thr = IngestThreshold(settings)])
          /\ UNCHANGED << envVars, settings, clock, alertVars, device_command_seq,
                          device_commands, device_data, dwell, issued, call >>

\* empty_thr = pfloat(settings.get("emptyThresholdCm"), 15) or 15
sensor_empty_thr(th) ==
  LET h == handlers[th]
  IN /\ h.pc = "sensor_empty_thr"
     /\ Goto(th, [h EXCEPT !.pc = "sensor_store",
                           !.empty_thr = IngestEmptyThreshold(settings)])
     /\ UNCHANGED << envVars, settings, clock, alertVars, device_command_seq,
                     device_commands, device_data, dwell, issued, call >>

\* sensor_in from the classification to the call of alert_eval: the reading
\* is classified and stored; alert_eval returns at once on a distance that
\* does not parse
sensor_store(th) ==
  LET h == handlers[th]
      is_full == (h.distance # None) /\ (h.distance[1] <= h.thr)
      fill_status == calculate_fill_status(h.distance, h.thr, h.empty_thr)
  IN /\ h.pc = "sensor_store"
     /\ device_data' = [device_data EXCEPT
                          ![h.deviceId] = Some([isFull |-> is_full,
                                                fillStatus |-> fill_status])]
     /\ IF h.distance = None THEN Return(th)
        ELSE Goto(th, [h EXCEPT !.pc = "alert_eval_threshold", !.thr = 0,
                                !.empty_thr = 0,
                                !.fill_status = fill_status])
     /\ UNCHANGED << envVars, settings, clock, alertVars, device_command_seq,
                     device_commands, dwell, issued, call >>

\* threshold = pfloat(settings.get("thresholdCm"), DEFAULT) or DEFAULT
alert_eval_threshold(th) ==
  LET h == handlers[th]
  IN /\ h.pc = "alert_eval_threshold"
     /\ Goto(th, [h EXCEPT !.pc = "alert_eval_sustain",
                           !.threshold = EffThreshold(settings)])
     /\ UNCHANGED << envVars, settings, clock, alertVars, device_command_seq,
                     device_commands, device_data, dwell, issued, call >>

\* sustain = pfloat(settings.get("alertSustainSec"), DEFAULT) or DEFAULT
alert_eval_sustain(th) ==
  LET h == handlers[th]
  IN /\ h.pc = "alert_eval_sustain"
     /\ Goto(th, [h EXCEPT !.pc = "alert_eval_now",
                           !.configured = settings.alertSustainSec,
                           !.sustain = EffSustain(settings)])
     /\ UNCHANGED << envVars, settings, clock, alertVars, device_command_seq,
                     device_commands, device_data, dwell, issued, call >>

\* now = datetime.now()
alert_eval_now(th) ==
  LET h == handlers[th]
  IN /\ h.pc = "alert_eval_now"
     /\ Goto(th, [h EXCEPT !.pc = "alert_eval_empty", !.now = clock])
     /\ UNCHANGED << envVars, settings, clock, alertVars, device_command_seq,
                     device_commands, device_data, dwell, issued, call >>

\* empty_threshold is read, which decides the branch of the if / elif chain
alert_eval_empty(th) ==
  LET h == handlers[th]
  IN /\ h.pc = "alert_eval_empty"
     /\ Goto(th, [h EXCEPT !.pc = "alert_eval_band", !.threshold = 0,
                           !.band = Band(h.distance[1], h.threshold,
                                         EffEmptyThreshold(settings))])
     /\ UNCHANGED << envVars, settings, clock, alertVars, device_command_seq,
                     device_commands, device_data, dwell, issued, call >>

\* the handlers after thread th matched a reading of device dev in band b:
\* th goes on with rec, readings of dev matched in another band are no longer
\* part of the current run
Matched(th, rec, dev, b) ==
  [t \in Threads |->
     IF t = th THEN rec
     ELSE IF handlers[t].deviceId = dev /\ handlers[t].band # b
          THEN [handlers[t] EXCEPT !.live = FALSE]
          ELSE handlers[t]]

\* the normal branch from its third test: if alert_partial_sent[device_id]
NormalPartial(st) ==
  [st |-> IF st.partial_sent THEN ResetPartial(st) ELSE st, pc |-> "idle"]

\* the normal branch from its second test: a sent flag that is set is reset
\* and the next test follows at once, one that is not set is a taken jump
NormalEmpty(st) ==
  IF st.empty_sent THEN NormalPartial(ResetEmpty(st))
  ELSE [st |-> st, pc |-> "alert_eval_normal_partial"]

NormalFull(st) ==
  IF st.sent THEN NormalEmpty(ResetFull(st))
  ELSE [st |-> st, pc |-> "alert_eval_normal_empty"]

\* the head of the branch taken.  In the normal branch alert_sent is tested.
\* In an alert branch since is looked up: an entry that exists is read, and
\* started when it holds None, up to the call of total_seconds; for a missing
\* entry the defaultdict calls its factory, a Python lambda
alert_eval_band(th) ==
  LET h == handlers[th]
      dev == h.deviceId
      st == AlertState(dev)
      st1 == StartSince(st, h.band, h.now)
      nrm == NormalFull(st)
  IN /\ h.pc = "alert_eval_band"
     /\ dwell' = [dwell EXCEPT ![dev] = NextDwell(dwell[dev], h.band, h.now)]
     /\ IF h.band = "normal"
        THEN /\ SetAlertState(dev, nrm.st)
             /\ handlers' = Matched(th, IF nrm.pc = "idle" THEN IdleHandler
                                        ELSE [h EXCEPT !.pc = nrm.pc],
                                    dev, "normal")
        ELSE IF h.band \notin st.keys
        THEN /\ handlers' = Matched(th, [h EXCEPT !.pc = "alert_eval_factory",
                                                  !.live = TRUE],
                                    dev, h.band)
             /\ UNCHANGED alertVars
        ELSE /\ SetAlertState(dev, st1)
             /\ handlers' = Matched(th, [h EXCEPT !.pc = "alert_eval_test",
                                                  !.since = SinceOf(st1, h.band)[1],
                                                  !.live = TRUE],
                                    dev, h.band)
     /\ UNCHANGED << envVars, settings, clock, device_command_seq,
                     device_commands, device_data, issued, call >>

\* the factory has returned: the defaultdict stores None under the key,
\* whatever another handler stored there meanwhile, since is None and the
\* handler starts it
alert_eval_factory(th) ==
  LET h == handlers[th]
      dev == h.deviceId
      st == AlertState(dev)
  IN /\ h.pc = "alert_eval_factory"
     /\ SetAlertState(dev, SetSince(SetSince(st, h.band, None), h.band, Some(h.now)))
     /\ Goto(th, [h EXCEPT !.pc = "alert_eval_test", !.since = h.now])
     /\ UNCHANGED << envVars, settings, clock, device_command_seq,
                     device_commands, device_data, dwell, issued, call >>

\* the second and the third test of the normal branch
alert_eval_normal(th) ==
  LET h == handlers[th]
      dev == h.deviceId
      st == AlertState(dev)
      nrm == IF h.pc = "alert_eval_normal_empty" THEN NormalEmpty(st)
             ELSE NormalPartial(st)
  IN /\ h.pc \in {"alert_eval_normal_empty", "alert_eval_normal_partial"}
     /\ SetAlertState(dev, nrm.st)
     /\ IF nrm.pc = "idle" THEN Return(th) ELSE Goto(th, [h EXCEPT !.pc = nrm.pc])
     /\ UNCHANGED << envVars, settings, clock, device_command_seq,
                     device_commands, device_data, dwell, issued, call >>

\* a fired full alert is cleared by the closing statements of the empty branch
Rearm(dw, st, band) ==
  IF band = "empty" /\ st.sent THEN [dw EXCEPT !.rearmed = TRUE] ELSE dw

\* the test (sustain <= 0 or elapsed >= sustain) and not x_sent[device_id]:
\* x_sent is read only when the first operand holds; when the test fails the
\* jump to the closing statements is taken, when it holds the next statement
\* is a call
alert_eval_test(th) ==
  LET h == handlers[th]
      dev == h.deviceId
      st == AlertState(dev)
      elapsed == h.now - h.since
  IN /\ h.pc = "alert_eval_test"
     /\ IF ShouldFire(h.sustain, elapsed, SentOf(st, h.band))
        THEN Goto(th, [h EXCEPT
                         !.pc = IF h.band = "full" THEN "discord_send"
                                ELSE "enqueue_command",
                         !.distance = None, !.fill_status = "none",
                         !.configured = 0, !.sustain = 0, !.now = 0, !.since = 0,
                         !.fired = TRUE,
                         !.payload = Payload(NotifyAction(h.band), None)])
        ELSE Goto(th, [h EXCEPT
                         !.pc = "alert_eval_close",
                         !.distance = None, !.fill_status = "none",
                         !.configured = 0, !.sustain = 0, !.now = 0, !.since = 0])
     /\ UNCHANGED << envVars, settings, clock, alertVars, device_command_seq,
                     device_commands, device_data, dwell, issued, call >>

\* the statements that close an alert branch, st being the alert state they
\* find: the full branch resets the two other conditions; the partial and
\* the empty branch test alert_sent, reset the full condition and the other
\* one when it is set, and take a jump when it is not
CloseBranch(st, band) ==
  IF band = "full" THEN [st |-> ResetLast(st, band), pc |-> "idle"]
  ELSE IF st.sent THEN [st |-> ResetLast(ResetFull(st), band), pc |-> "idle"]
  ELSE [st |-> st, pc |-> "alert_eval_reset"]

\* the closing statements after a test that failed
alert_eval_close(th) ==
  LET h == handlers[th]
      dev == h.deviceId
      st == AlertState(dev)
      cl == CloseBranch(st, h.band)
  IN /\ h.pc = "alert_eval_close"
     /\ SetAlertState(dev, cl.st)
     /\ dwell' = [dwell EXCEPT ![dev] = Rearm(dwell[dev], st, h.band)]
     /\ IF cl.pc = "idle" THEN Return(th) ELSE Goto(th, [h EXCEPT !.pc = cl.pc])
     /\ UNCHANGED << envVars, settings, clock, device_command_seq,
                     device_commands, device_data, issued, call >>

\* enqueue_command has returned: x_sent[device_id] = True, then the closing
\* statements
alert_eval_sent(th) ==
  LET h == handlers[th]
      dev == h.deviceId
      st == AlertState(dev)
      cl == CloseBranch(MarkSent(st, h.band), h.band)
  IN /\ h.pc = "alert_eval_sent"
     /\ SetAlertState(dev, cl.st)
     /\ dwell' = [dwell EXCEPT ![dev] = Rearm(dwell[dev], st, h.band)]
     /\ IF cl.pc = "idle" THEN Return(th) ELSE Goto(th, [h EXCEPT !.pc = cl.pc])
     /\ UNCHANGED << envVars, settings, clock, device_command_seq,
                     device_commands, device_data, issued, call >>

\* the last two statements of the partial and of the empty branch, after
\* the jump over the reset of the full condition
alert_eval_reset(th) ==
  LET h == handlers[th]
      dev == h.deviceId
  IN /\ h.pc = "alert_eval_reset"
     /\ SetAlertState(dev, ResetLast(AlertState(dev), h.band))
     /\ Return(th)
     /\ UNCHANGED << envVars, settings, clock, device_command_seq,
                     device_commands, device_data, dwell, issued, call >>

\* discord_send(msg) in the full branch: the thread waits for the webhook; an
\* exception of requests.post leaves alert_eval and is caught by sensor_in
alert_eval_send(th, net) ==
  LET h == handlers[th]
      dev == h.deviceId
      sent == discord_send(webhook, net)
      counted == sent \in Posted /\ h.live
  IN /\ h.pc = "discord_send"
     /\ counted => dwell[dev].posts < MaxPosts
     /\ dwell' = IF counted
                 THEN [dwell EXCEPT ![dev].posts = dwell[dev].posts + 1]
                 ELSE dwell
     /\ IF sent = "raised" THEN Return(th)
        ELSE Goto(th, [h EXCEPT !.pc = "enqueue_command"])
     /\ UNCHANGED << envVars, settings, clock, alertVars, device_command_seq,
                     device_commands, device_data, issued, call >>

\* enqueue_command up to the calls that build the command: the counter is
\* advanced and read back
enqueue_command(th) ==
  LET h == handlers[th]
      dev == h.deviceId
      cmd_id == NextSeq(device_command_seq[dev])
      counted == h.route = "sensor" /\ h.live
  IN /\ h.pc = "enqueue_command"
     /\ device_command_seq[dev] < MaxSeq
     /\ device_command_seq' = [device_command_seq EXCEPT ![dev] = cmd_id]
     /\ issued' = [issued EXCEPT ![dev] = Append(issued[dev], cmd_id)]
     /\ dwell' = IF counted
                 THEN [dwell EXCEPT ![dev].fires = dwell[dev].fires + 1]
                 ELSE dwell
     /\ Goto(th, [h EXCEPT !.pc = "enqueue_store", !.cmd_id = cmd_id])
     /\ UNCHANGED << envVars, settings, clock, alertVars, device_commands,
                     device_data, call >>

\* the command is stored and returned: to command_api, which answers, or to
\* alert_eval
enqueue_store(th) ==
  LET h == handlers[th]
      dev == h.deviceId
      command == Command(dev, h.cmd_id, h.payload)
  IN /\ h.pc = "enqueue_store"
     /\ device_commands' = SetCommand(device_commands, dev, command)
     /\ IF h.route = "sensor"
        THEN Goto(th, [h EXCEPT !.pc = "alert_eval_sent", !.payload = NoPayload,
                               !.cmd_id = 0])
        ELSE Return(th)
     /\ UNCHANGED << envVars, settings, clock, alertVars, device_command_seq,
                     device_data, dwell, issued, call >>

\* mutant: the angle is not clamped
clamp_deg_asis(angle) == angle

\* utils.clamp_deg
clamp_deg(angle) == IF angle < 0 THEN 0 ELSE IF angle > 180 THEN 180 ELSE angle

\* the payload command_api builds from a POST body, or a 400
CommandPayload(body) ==
  LET action0 == IF body.action = "" THEN "setAngle" ELSE body.action
      target0 == Get(body.targetPosition)
      opens == action0 \in {"open", "activate"} /\ target0.kind = "null"
      closes == action0 \in {"close", "deactivate"} /\ target0.kind = "null"
      action == IF opens \/ closes THEN "setAngle" ELSE action0
      target == IF opens THEN Num(90) ELSE IF closes THEN Num(0) ELSE target0
  IN IF action = "auto" THEN [status |-> 200, payload |-> Payload("auto", None)]
     ELSE IF action = "notify" THEN [status |-> 200, payload |-> Payload("notify", None)]
     ELSE IF target.kind \notin {"number", "str"} THEN [status |-> 400, payload |-> NoPayload]
     ELSE IF ~target.parses THEN [status |-> 400, payload |-> NoPayload]
     ELSE [status |-> 200, payload |-> Payload("setAngle", Some(clamp_deg(target.num)))]

\* the status of POST /api/command
CommandStatus(req) ==
  IF ~req.auth THEN 401
  ELSE IF req.deviceId = "" THEN 400
  ELSE CommandPayload(req).status

\* POST /api/command up to the call of enqueue_command: the request is
\* rejected, or its payload is built
command_api(th, req) ==
  /\ Imported
  /\ handlers[th].pc = "idle"
  /\ IF CommandStatus(req) # 200 THEN UNCHANGED vars
     ELSE /\ Goto(th, [IdleHandler EXCEPT
                         !.route = "command", !.pc = "enqueue_command",
                         !.deviceId = req.deviceId,
                         !.payload = CommandPayload(req).payload])
          /\ UNCHANGED << envVars, settings, clock, alertVars, device_command_seq,
                          device_commands, device_data, dwell, issued, call >>

\* utils.arg_int: the query argument as an integer, the default when it is
\* absent or does not parse
arg_int(raw, default) == IF raw.parses THEN raw.num ELSE default

\* mutant: a command the device already holds is returned again
PollResponse_again(cmds, dev, last_id) ==
  IF cmds[dev] = None THEN None
  ELSE IF cmds[dev][1].commandId < last_id THEN None
  ELSE cmds[dev]

\* the body of GET /api/command: None is the empty object
PollResponse(cmds, dev, last_id) ==
  IF cmds[dev] = None THEN None
  ELSE IF cmds[dev][1].commandId <= last_id THEN None
  ELSE cmds[dev]

\* GET /api/command?deviceId=dev&lastId=raw
command_get(dev, raw) ==
  /\ Imported
  /\ call' = [fn |-> "command_get", args |-> << dev, raw >>,
              result |-> PollResponse(device_commands, dev, arg_int(raw, 0))]
  /\ UNCHANGED << envVars, settings, clock, alertVars, device_command_seq,
                  device_commands, device_data, handlers, dwell, issued >>

\* a device polling with the id of the last command it received, and keeping
\* the id of the command the response carries
device_poll(dev) ==
  LET raw == NumStr(device_last_id[dev])
      resp == PollResponse(device_commands, dev, arg_int(raw, 0))
  IN /\ Imported
     /\ device_last_id' =
          IF resp = None THEN device_last_id
          ELSE [device_last_id EXCEPT ![dev] = resp[1].commandId]
     /\ UNCHANGED << DEFAULT_EMPTY_THRESHOLD_CM, webhook, settings, clock, alertVars,
                     device_command_seq, device_commands, device_data, handlers,
                     dwell, issued, call >>

\* one field of POST /api/settings: absent -> skipped, unparsable -> 400
SettingField(raw) ==
  IF raw.kind = "absent" THEN [present |-> FALSE, ok |-> TRUE, v |-> 0]
  ELSE LET p == pfloat(Get(raw), None)
       IN IF p = None THEN [present |-> TRUE, ok |-> FALSE, v |-> 0]
          ELSE [present |-> TRUE, ok |-> TRUE, v |-> Clamp0(p[1])]

\* settings[key] = v when the field is present
StoreField(cfg, key, f) ==
  IF ~f.present THEN cfg
  ELSE IF key = "thresholdCm" THEN [cfg EXCEPT !.thresholdCm = f.v]
  ELSE IF key = "emptyThresholdCm" THEN [cfg EXCEPT !.emptyThresholdCm = f.v]
  ELSE [cfg EXCEPT !.alertSustainSec = f.v]

\* the locals of a settings request after the field f was stored under key
Stored(h, key, f, next) ==
  [h EXCEPT !.pc = next,
            !.updated_any = h.updated_any \/ f.present,
            !.changed = h.changed \/ StoreField(settings, key, f) # settings]

\* POST /api/settings, the thresholdCm field: 400 when it is not a number,
\* else it is clamped and stored
settings_api(th, body) ==
  LET f == SettingField(body.thresholdCm)
  IN /\ Imported
     /\ handlers[th].pc = "idle"
     /\ IF ~f.ok THEN UNCHANGED vars
        ELSE /\ settings' = StoreField(settings, "thresholdCm", f)
             /\ Goto(th, Stored([IdleHandler EXCEPT !.route = "settings", !.body = body],
                                "thresholdCm", f, "settings_empty"))
             /\ UNCHANGED << envVars, clock, alertVars, device_command_seq,
                             device_commands, device_data, dwell, issued, call >>

\* the emptyThresholdCm field
settings_empty(th) ==
  LET h == handlers[th]
      f == SettingField(h.body.emptyThresholdCm)
  IN /\ h.pc = "settings_empty"
     /\ IF ~f.ok THEN Return(th) /\ UNCHANGED settings
        ELSE /\ settings' = StoreField(settings, "emptyThresholdCm", f)
             /\ Goto(th, Stored(h, "emptyThresholdCm", f, "settings_sustain"))
     /\ UNCHANGED << envVars, clock, alertVars, device_command_seq,
                     device_commands, device_data, dwell, issued, call >>

\* mutant: an update restarts every full dwell
settings_sustain_restart(th) ==
  LET h == handlers[th]
      f == SettingField(h.body.alertSustainSec)
  IN /\ h.pc = "settings_sustain"
     /\ settings' = IF f.ok THEN StoreField(settings, "alertSustainSec", f) ELSE settings
     /\ alert_below_since' = [d \in Devices |-> None]
     /\ Return(th)
     /\ UNCHANGED << envVars, clock, alert_sent, alert_partial_since,
                     alert_partial_sent, alert_empty_since, alert_empty_sent,
                     since_keys, device_command_seq, device_commands, device_data,
                     dwell, issued, call >>

\* the alertSustainSec field, then 400 when no field was given, else the
\* settings are saved and returned
settings_sustain(th) ==
  LET h == handlers[th]
      f == SettingField(h.body.alertSustainSec)
  IN /\ h.pc = "settings_sustain"
     /\ settings' = IF f.ok THEN StoreField(settings, "alertSustainSec", f) ELSE settings
     /\ Return(th)
     /\ UNCHANGED << envVars, clock, alertVars, device_command_seq,
                     device_commands, device_data, dwell, issued, call >>

\* the status a settings request in h answers with when it returns at the
\* field under key
SettingsStatus(h, key) ==
  LET f == SettingField(IF key = "emptyThresholdCm" THEN h.body.emptyThresholdCm
                        ELSE h.body.alertSustainSec)
  IN IF ~f.ok THEN 400
     ELSE IF key = "emptyThresholdCm" THEN 0
     ELSE IF h.updated_any \/ f.present THEN 200
     ELSE 400

\* -------------------------------------------------------------------- Next
\* the steps a handler in flight takes for a command or for a reading in the
\* full band
Steps(th) ==
  \/ sensor_empty_thr(th)
  \/ sensor_store(th)
  \/ alert_eval_threshold(th)
  \/ alert_eval_sustain(th)
  \/ alert_eval_now(th)
  \/ alert_eval_empty(th)
  \/ alert_eval_band(th)
  \/ alert_eval_factory(th)
  \/ alert_eval_test(th)
  \/ alert_eval_close(th)
  \/ \E net \in IF webhook THEN NetOutcomes ELSE {"ok"} : alert_eval_send(th, net)
  \/ enqueue_command(th)
  \/ enqueue_store(th)
  \/ alert_eval_sent(th)

SettingsSteps(th) ==
  \/ settings_empty(th)
  \/ settings_sustain(th)

\* ---- the debouncer over runs of readings: full and empty, time passing
DwellRequests == { SensorRequest(TRUE, "A", Num(d)) : d \in {2, 20} }

Next ==
  \/ Tick
  \/ \E th \in Threads :
       \/ \E req \in DwellRequests : sensor_in(th, req)
       \/ Steps(th)
       \/ alert_eval_reset(th)

InitSpec == Start({ShortSustainFile}, LiteralDefault) /\ ~webhook

Spec == InitSpec /\ [][Next]_vars

\* ---- the webhook: full readings while the webhook answers, fails or raises
NotifierRequests == { SensorRequest(TRUE, "A", Num(2)) }

NotifierCommandRequests == { CommandRequest(TRUE, "A", "", Num(200)) }

NextNotifier ==
  \/ Tick
  \/ \E th \in Threads :
       \/ \E req \in NotifierRequests : sensor_in(th, req)
       \/ \E req \in NotifierCommandRequests : command_api(th, req)
       \/ Steps(th)

InitNotifier == Start({ShortSustainFile}, LiteralDefault) /\ webhook

SpecNotifier == InitNotifier /\ [][NextNotifier]_vars

\* ---- the sustain setting: updates of alertSustainSec between readings
SustainRequests ==
  { SensorRequest(TRUE, "A", d) : d \in {Num(2), BadStr, Null, JList, Absent} }
    \cup { SensorRequest(FALSE, "A", Num(2)) }

SustainBodies ==
  { SettingsBody(Absent, Absent, Num(0)),
    SettingsBody(Absent, Absent, NumStr(1)) }

NextSustain ==
  \/ Tick
  \/ \E th \in Threads :
       \/ \E req \in SustainRequests : sensor_in(th, req)
       \/ \E body \in SustainBodies : settings_api(th, body)
       \/ Steps(th)
       \/ SettingsSteps(th)

InitSustain == Start({NoFile}, EmptyDefaults) /\ ~webhook

SpecSustain == InitSustain /\ [][NextSustain]_vars

\* ---- two devices, readings and dashboard commands, the requests for a
\* device being served by one thread and those for the other by the other
FleetDevice(th) == IF th = "t1" THEN "A" ELSE "B"

FleetSensorRequests(th) == { SensorRequest(TRUE, FleetDevice(th), Num(2)) }

FleetCommandRequests(th) ==
  IF FleetDevice(th) = "B" THEN { CommandRequest(TRUE, "B", "auto", Absent) } ELSE {}

NextFleet ==
  \/ Tick
  \/ \E th \in Threads :
       \/ \E req \in FleetSensorRequests(th) : sensor_in(th, req)
       \/ \E req \in FleetCommandRequests(th) : command_api(th, req)
       \/ Steps(th)

InitFleet == Start({ShortSustainFile}, LiteralDefault) /\ ~webhook

SpecFleet == InitFleet /\ [][NextFleet]_vars

\* ---- full and normal readings while the dashboard moves the empty threshold
BandSensorRequests ==
  { SensorRequest(TRUE, "A", d) :
      d \in {Num(2), Num(10)} }

BandSettingsBodies ==
  { SettingsBody(Absent, NumStr(7), Absent) }

NextBands ==
  \/ Tick
  \/ \E th \in Threads :
       \/ \E req \in BandSensorRequests : sensor_in(th, req)
       \/ \E body \in BandSettingsBodies : settings_api(th, body)
       \/ Steps(th)
       \/ alert_eval_reset(th)
       \/ alert_eval_normal(th)
       \/ SettingsSteps(th)

InitBands == Start({BandsFile}, LiteralDefault) /\ ~webhook

SpecBands == InitBands /\ [][NextBands]_vars

\* ---- the settings alone: loaded from any file, then updated by the dashboard
\* what a field of a settings update can carry
FieldValues == {Num(-1), Num(2), NumStr(-3), NumStr(7), BadStr, Null}

\* updates of one field, of no field, and of a valid field next to a bad one
UpdateBodies ==
  { SettingsBody(v, Absent, Absent) : v \in FieldValues }
    \cup { SettingsBody(Absent, v, Absent) : v \in FieldValues }
    \cup { SettingsBody(Absent, Absent, v) : v \in FieldValues }
    \cup { SettingsBody(Absent, Absent, Absent),
           SettingsBody(Num(4), BadStr, Absent),
           SettingsBody(BadStr, Num(4), Absent),
           SettingsBody(Absent, Num(-4), JList) }

NextSettings ==
  \E th \in Threads :
    \/ \E body \in UpdateBodies : settings_api(th, body)
    \/ SettingsSteps(th)

InitSettings == Start(SettingsFiles, EmptyDefaults) /\ ~webhook

SpecSettings == InitSettings /\ [][NextSettings]_vars

\* ---- the command endpoint: posts of the dashboard
PostRequests ==
  { CommandRequest(TRUE, "A", "setAngle", t) :
      t \in {Num(-5), Num(45), NumStr(45), BadStr, JList, Absent} }
    \cup { CommandRequest(TRUE, "A", "", Num(200)),
           CommandRequest(TRUE, "A", "open", Absent),
           CommandRequest(TRUE, "A", "activate", Null),
           CommandRequest(TRUE, "A", "close", Absent),
           CommandRequest(TRUE, "A", "deactivate", Null),
           CommandRequest(TRUE, "A", "close", Num(45)),
           CommandRequest(TRUE, "A", "auto", Absent),
           CommandRequest(TRUE, "B", "notify", Num(45)),
           CommandRequest(TRUE, "", "setAngle", Num(45)),
           CommandRequest(FALSE, "A", "setAngle", Num(45)) }

CommandSteps(th) ==
  \/ enqueue_command(th)
  \/ enqueue_store(th)

NextCommands ==
  \E th \in Threads :
    \/ \E req \in PostRequests : command_api(th, req)
    \/ CommandSteps(th)

InitCommands == Start({ShortSustainFile}, LiteralDefault) /\ ~webhook

SpecCommands == InitCommands /\ [][NextCommands]_vars

\* ---- the command endpoint: a device polling while the dashboard posts
PollPostRequests ==
  { CommandRequest(TRUE, "A", "auto", Absent),
    CommandRequest(TRUE, "A", "notify", Absent) }

LastIds == {Absent, BadStr} \cup { NumStr(n) : n \in 0..MaxSeq }

NextPolls ==
  \/ \E th \in Threads :
       \/ \E req \in PollPostRequests : command_api(th, req)
       \/ CommandSteps(th)
  \/ \E dev \in Devices : \E raw \in LastIds : command_get(dev, raw)
  \/ \E dev \in Devices : device_poll(dev)

InitPolls == Start({ShortSustainFile}, LiteralDefault) /\ ~webhook

SpecPolls == InitPolls /\ [][NextPolls]_vars

\* ---- the classifier called directly
ClassifyDistances == {None} \cup { Some(n) : n \in 0..MaxCm }

classify(distance, threshold, empty_threshold) ==
  /\ Imported
  /\ call' = [fn |-> "calculate_fill_status",
              args |-> << distance, threshold, empty_threshold >>,
              result |-> calculate_fill_status(distance, threshold, empty_threshold)]
  /\ UNCHANGED << envVars, settings, clock, alertVars, device_command_seq,
                  device_commands, device_data, handlers, dwell, issued >>

NextClassify ==
  \E distance \in ClassifyDistances : \E threshold \in 0..MaxCm :
    \E empty_threshold \in 0..MaxCm : classify(distance, threshold, empty_threshold)

InitClassify == Start({ShortSustainFile}, LiteralDefault) /\ ~webhook

SpecClassify == InitClassify /\ [][NextClassify]_vars

TypeOK ==
  /\ clock \in 0..MaxTime
  /\ \A d \in Devices : device_command_seq[d] \in 0..MaxSeq

\* ================================================================= claims
Pending(d) == device_commands[d][1]

\* thread th takes this step
Moves(th) == handlers'[th].pc # handlers[th].pc

\* the handler of thread th returns in this step
Returns(th) == handlers[th].pc # "idle" /\ handlers'[th].pc = "idle"

\* no request is being handled
Quiet == \A th \in Threads : handlers[th].pc = "idle"

\* the pcs of a reading that passed the firing test and has not returned
FiringPcs == {"discord_send", "enqueue_command", "enqueue_store", "alert_eval_sent"}

\* the pcs of the statements that close an alert branch
ClosingPcs == {"alert_eval_close", "alert_eval_sent", "alert_eval_reset"}

\* the pcs of the tests of the normal branch
NormalPcs == {"alert_eval_band", "alert_eval_normal_empty", "alert_eval_normal_partial"}

\* in this step alert_eval decides to fire for the reading of thread th
Fires(th) ==
  /\ handlers[th].pc = "alert_eval_test"
  /\ handlers'[th].pc \in FiringPcs

\* the slot of condition c of device d holds since = None and sent = FALSE
SlotClear(d, c) ==
  SinceOf(AlertState(d), c) = None /\ ~SentOf(AlertState(d), c)

\* the alert values, the counter and the pending command of device d
DeviceState(d) == << AlertState(d), device_command_seq[d], device_commands[d] >>

\* C1: within one uninterrupted run of same-band readings of a device,
\* alert_eval enqueues at most one notify command, however many readings follow
C1_AtMostOncePerDwell == \A d \in Devices : dwell[d].fires <= 1

\* C2: a condition fires only when the current run of readings in its band is
\* at least the sustain duration old; an interrupted run lends no time to a
\* later one
C2_FiresOnlyAfterSustain ==
  [][\A th \in Threads :
       (Fires(th) /\ handlers[th].live /\ handlers[th].sustain > 0)
         => handlers[th].now - dwell[handlers[th].deviceId].start
              >= handlers[th].sustain]_vars

\* C3: at most one of the three since timestamps of a device is set, once
\* the readings received have been evaluated
C3_AtMostOneSince ==
  Quiet =>
    \A d \in Devices :
      Cardinality({ c \in AlertBands : SinceOf(AlertState(d), c) # None }) <= 1

\* C4: a sent flag is true only while its since is set, once the readings
\* received have been evaluated
C4_SentImpliesSince ==
  Quiet =>
    \A d \in Devices : \A c \in AlertBands :
      SinceOf(AlertState(d), c) = None => ~SentOf(AlertState(d), c)

\* C5: a reading evaluated while the settings hold alertSustainSec <= 0, in a
\* run of readings of an alert band that has not fired, fires that band's
\* notification
C5_ZeroSustainFiresAtOnce ==
  [][\A th \in Threads :
       (/\ handlers[th].pc = "alert_eval_test" /\ Moves(th)
        /\ handlers[th].configured <= 0
        /\ handlers[th].live
        /\ dwell[handlers[th].deviceId].fires = 0
        /\ ~SentOf(AlertState(handlers[th].deviceId), handlers[th].band))
         => Fires(th)]_vars

\* C6: a device without commands, thresholdCm = 5, alertSustainSec = 0, a
\* posted reading with distance 2 that starts the full condition: fillStatus
\* full, and notifyFull is enqueued as the device's first command
C6_EndToEnd ==
  [][\A th \in Threads :
       (/\ handlers[th].pc = "alert_eval_test" /\ Moves(th)
        /\ handlers[th].distance = Some(2)
        /\ settings.thresholdCm = 5 /\ handlers[th].configured = 0
        /\ handlers[th].since = handlers[th].now
        /\ device_command_seq[handlers[th].deviceId] = 0
        /\ device_commands[handlers[th].deviceId] = None
        /\ \A t \in Threads \ {th} : handlers[t].pc = "idle")
         => /\ handlers[th].fill_status = "full"
            /\ Fires(th)
            /\ handlers'[th].payload = Payload("notifyFull", None)]_vars

\* C7: after a fired full alert was cleared by a reading in the empty band
\* (the clearing resets the slot), the since of the full condition restarts
\* at the re-entry reading and the full alert fires again only when the new
\* run of full readings has lasted the sustain duration
C7_RearmAfterEmpty ==
  [][\A th \in Threads :
       LET h == handlers[th]
           d == h.deviceId
       IN /\ (/\ h.pc \in {"alert_eval_close", "alert_eval_sent"} /\ Moves(th)
              /\ h.band = "empty" /\ alert_sent[d])
               => (alert_below_since'[d] = None /\ ~alert_sent'[d])
          /\ (/\ h.pc = "alert_eval_band" /\ Moves(th) /\ h.band = "full"
              /\ dwell[d].rearmed /\ alert_below_since[d] = None)
               => alert_below_since'[d] = Some(h.now)
          /\ (Fires(th) /\ h.band = "full" /\ h.live /\ dwell[d].rearmed)
               => h.now - dwell[d].start >= h.sustain]_vars

\* C8: per device, the enqueue_command calls take the commandIds 1, 2, 3, ...
\* in the order they are made, from the dashboard and from alert firings
\* alike, and each call returns the command with the id it took
C8_CommandIdsIncrease ==
  /\ [](\A d \in Devices :
          /\ Len(issued[d]) = device_command_seq[d]
          /\ \A i \in 1..Len(issued[d]) : issued[d][i] = i)
  /\ [][\A th \in Threads :
          (handlers[th].pc = "enqueue_store" /\ Moves(th)) =>
            /\ handlers[th].cmd_id \in 1..device_command_seq[handlers[th].deviceId]
            /\ \A d \in Devices :
                 d = handlers[th].deviceId =>
                   device_commands'[d] # None /\ Pending(d)'.commandId = handlers[th].cmd_id]_vars

\* a dashboard command took id 2 after an alert firing took id 1
C8_Witness ==
  /\ issued["A"] = << 1, 2 >> /\ alert_sent["A"] /\ dwell["A"].fires = 1
  /\ device_commands["A"] # None
  /\ Pending("A").action = "setAngle" /\ Pending("A").commandId = 2

\* the device a step of thread th is for
StepDevice(th) ==
  IF handlers[th].pc = "idle" THEN handlers'[th].deviceId ELSE handlers[th].deviceId

\* C9: every step of a reading or of a command for device a leaves the
\* since/sent pairs, the counter and the pending command of every other
\* device unchanged
C9_DevicesIndependent ==
  [][\A th \in Threads : \A b \in Devices :
       (Moves(th) /\ StepDevice(th) # b) => DeviceState(b)' = DeviceState(b)]_vars

\* both devices hold a fired alert and a pending command, B having received a
\* dashboard command as well
C9_Witness ==
  /\ alert_below_since["B"] # None /\ alert_sent["B"]
  /\ device_command_seq["B"] = 2 /\ device_commands["B"] # None
  /\ alert_below_since["A"] # None /\ alert_sent["A"]
  /\ device_command_seq["A"] = 1 /\ device_commands["A"] # None
  /\ Pending("A").action = "notifyFull"

\* the command a device holds: none before its first command, afterwards one
\* whose id is the device's counter
LatestOnly(d) ==
  IF device_command_seq[d] = 0 THEN device_commands[d] = None
  ELSE /\ device_commands[d] # None
       /\ Len(device_commands[d]) = 1
       /\ Pending(d).deviceId = d
       /\ Pending(d).commandId = device_command_seq[d]

\* C10: once the enqueue_command calls made have returned, a device that has
\* received a command holds exactly one pending command, the most recently
\* enqueued one, with commandId = its counter
C10_LatestCommandOnly == Quiet => \A d \in Devices : LatestOnly(d)

\* the ordered first-match rule: full, partial by threshold, empty, partial
FirstMatch(d, t, e) ==
  IF d <= t THEN "full"
  ELSE IF 100 * d <= 133 * t THEN "partial"
  ELSE IF d >= e THEN "empty"
  ELSE "partial"

\* C11: for every non-null distance d and thresholds t, e >= 0 (also with
\* e <= 1.33*t) calculate_fill_status returns the first match of: full if
\* d <= t, partial if d <= 1.33*t, empty if d >= e, else partial; the result
\* is one of full, partial, empty, and a distance with both d <= 1.33*t and
\* d >= e is never classified empty
C11_ClassifierFirstMatch ==
  (call.fn = "calculate_fill_status" /\ call.args[1] # None) =>
    LET d == call.args[1][1]
        t == call.args[2]
        e == call.args[3]
    IN /\ call.result = FirstMatch(d, t, e)
       /\ call.result \in {"full", "partial", "empty"}
       /\ (100 * d <= 133 * t /\ d >= e) => call.result \in {"partial", "full"}

\* a distance above the threshold, within 1.33*threshold and at or above the
\* empty threshold was classified partial
C11_Witness ==
  /\ call.fn = "calculate_fill_status" /\ call.args[1] # None
  /\ call.args[1][1] > call.args[2]
  /\ 100 * call.args[1][1] <= 133 * call.args[2]
  /\ call.args[1][1] >= call.args[3]
  /\ call.result = "partial"

\* the distance field of a posted reading is missing or is not a number
Unparsable(raw) ==
  ~(raw.kind = "number" \/ (raw.kind = "str" /\ raw.parses))

\* C12: the distance of a posted reading parses to None exactly when the
\* field is missing or is not a number, and the ingestion handler records the
\* reading with fillStatus unknown exactly when the distance is None
C12_UnknownIffUnparsable ==
  [][\A th \in Threads :
       /\ \A req \in SustainRequests :
            (req.auth /\ sensor_in(th, req)) =>
              (handlers'[th].distance = None <=> Unparsable(req.distance))
       /\ (handlers[th].pc = "sensor_store" /\ Moves(th)) =>
            (device_data'[handlers[th].deviceId][1].fillStatus = "unknown"
               <=> handlers[th].distance = None)]_vars

\* a reading without a usable distance is stored after one that was classified
C12_Witness ==
  /\ device_data["A"] # None
  /\ device_data["A"][1].fillStatus = "unknown"
  /\ dwell["A"].band = "full"

\* C13: a failure of the webhook call (connection error, timeout or HTTP
\* error status) while a full alert is firing does not escape alert_eval: the
\* handler goes on to enqueue notifyFull, set alert_sent and reset the other
\* slots
C13_NotifierFailureContained ==
  [][\A th \in Threads : \A net \in NetOutcomes \ {"ok"} :
       (webhook /\ alert_eval_send(th, net)) =>
         /\ handlers'[th].pc = "enqueue_command"
         /\ handlers'[th].payload = Payload("notifyFull", None)]_vars

\* C14: within one uninterrupted run of full readings of a device the
\* webhook is posted to at most once, also when the post fails
C14_NotifierNeverRetried ==
  \A d \in Devices : dwell[d].band = "full" => dwell[d].posts <= 1

\* C15: a reading whose distance is missing, null, a non-numeric string or
\* a list is a no-op for the debouncer: alert_eval returns at once and the
\* handler leaves the six since/sent values, the command counter, the pending
\* command and the notifier untouched
C15_UnparsableIsNoOp ==
  [][\A th \in Threads :
       /\ \A req \in SustainRequests :
            (req.auth /\ Unparsable(req.distance) /\ sensor_in(th, req)) =>
              /\ handlers'[th].distance = None
              /\ UNCHANGED << alertVars, device_command_seq, device_commands, dwell >>
       /\ (/\ handlers[th].pc \in {"sensor_empty_thr", "sensor_store"}
           /\ handlers[th].distance = None /\ Moves(th)) =>
            /\ handlers[th].pc = "sensor_store" => Returns(th)
            /\ UNCHANGED << alertVars, device_command_seq, device_commands, dwell >>]_vars

\* a reading without a usable distance arrived while a fired full alert and
\* its command were pending
C15_Witness ==
  /\ device_data["A"] # None
  /\ device_data["A"][1].fillStatus = "unknown"
  /\ alert_below_since["A"] # None /\ alert_sent["A"]
  /\ device_commands["A"] # None
  /\ Pending("A").action = "notifyFull"

\* C16: when alert_eval returns from a reading that matched the full, partial
\* or empty band, the slots of the two other conditions hold since = None and
\* sent = FALSE, whatever they held before
C16_OtherSlotsReset ==
  [][\A th \in Threads :
       \A d \in Devices : \A b \in AlertBands :
         (/\ handlers[th].pc \in ClosingPcs /\ Returns(th)
          /\ handlers[th].deviceId = d /\ handlers[th].band = b)
           => \A c \in AlertBands \ {b} : SlotClear(d, c)']_vars

\* C17: when alert_eval returns from a reading in the normal band all three
\* conditions of the device hold since = None and sent = FALSE
C17_NormalResetsAll ==
  [][\A th \in Threads :
       (/\ handlers[th].pc \in NormalPcs /\ Returns(th)
        /\ handlers[th].band = "normal")
         => \A d \in Devices : \A c \in AlertBands :
              d = handlers[th].deviceId => SlotClear(d, c)']_vars

\* C18: on a reading that matches band c alert_eval fires c exactly when
\* (sustain <= 0 or now - since[c] >= sustain) and sent[c] is false, and when
\* alert_eval returns from a reading that fired, sent[c] is true
C18_FiringRule ==
  [][\A th \in Threads :
       LET h == handlers[th]
           st == AlertState(h.deviceId)
       IN /\ (h.pc = "alert_eval_test" /\ Moves(th)) =>
               (Fires(th) <=> /\ SinceOf(st, h.band) # None
                              /\ (h.sustain <= 0 \/ h.now - SinceOf(st, h.band)[1] >= h.sustain)
                              /\ ~SentOf(st, h.band))
          /\ (h.fired /\ Returns(th)) =>
               \A d \in Devices : \A c \in AlertBands :
                 (d = h.deviceId /\ c = h.band) => SentOf(AlertState(d), c)']_vars

\* C19: for one reading the branch alert_eval takes agrees with the
\* fillStatus the ingestion handler computed: full with full, empty with
\* empty, partial or normal with partial
C19_BandMatchesFillStatus ==
  [][\A th \in Threads :
       (handlers[th].pc = "alert_eval_empty" /\ Moves(th)) =>
         LET status == handlers[th].fill_status
             band == handlers'[th].band
         IN /\ band = "full" <=> status = "full"
            /\ band = "empty" <=> status = "empty"
            /\ band \in {"partial", "normal"} <=> status = "partial"]_vars

\* C20: a full firing posts one message and enqueues one notifyFull; a
\* partial or empty firing enqueues notifyPartial or notifyEmpty and does not
\* call the notifier; a reading that does not fire enqueues no command and
\* calls no notifier
C20_FiringSideEffects ==
  [][\A th \in Threads :
       LET h == handlers[th]
       IN /\ (h.pc = "discord_send" /\ Moves(th)) =>
               /\ h.band = "full"
               /\ handlers'[th].pc = "enqueue_command"
          /\ (h.pc = "enqueue_command" /\ h.route = "sensor" /\ Moves(th)) =>
               /\ h.payload.action = NotifyAction(h.band)
               /\ device_command_seq'[h.deviceId] = device_command_seq[h.deviceId] + 1
          /\ (h.pc = "alert_eval_test" /\ Moves(th) /\ h.band # "full") =>
               handlers'[th].pc # "discord_send"
          /\ (h.route = "sensor" /\ ~h.fired /\ Moves(th)) =>
               /\ UNCHANGED << device_command_seq, device_commands >>
               /\ handlers'[th].pc \in {"discord_send", "enqueue_command"}
                    => handlers'[th].fired]_vars

\* C21: the threshold, empty threshold and sustain duration alert_eval
\* applies to a reading are the values the settings hold when it reads them,
\* for every value they can hold, 0 included
C21_AppliesStoredSettings ==
  [][\A th \in Threads :
       /\ (handlers[th].pc = "alert_eval_threshold" /\ Moves(th)) =>
            handlers'[th].threshold = settings.thresholdCm
       /\ (handlers[th].pc = "alert_eval_sustain" /\ Moves(th)) =>
            handlers'[th].sustain = settings.alertSustainSec
       /\ (handlers[th].pc = "alert_eval_empty" /\ Moves(th)) =>
            handlers'[th].band = Band(handlers[th].distance[1], handlers[th].threshold,
                                      settings.emptyThresholdCm)]_vars

\* C22: no step of a settings update changes a device's since/sent values,
\* enqueues a command or calls the notifier
C22_SettingsNotRetroactive ==
  [][\A th \in Threads :
       (Moves(th) /\ (handlers[th].route = "settings" \/ handlers'[th].route = "settings"))
         => UNCHANGED << alertVars, device_command_seq, device_commands, dwell >>]_vars

\* the sustain duration was set to 0 after a full alert had fired under a
\* sustain of 1 s, and the fired alert is still recorded
C22_Witness ==
  /\ clock = 1
  /\ settings.alertSustainSec = 0
  /\ alert_below_since["A"] = Some(0) /\ alert_sent["A"]
  /\ device_commands["A"] # None
  /\ Quiet

\* C23: after any settings load and any sequence of settings updates the
\* three stored settings are >= 0
C23_SettingsNonNegative ==
  Imported =>
    /\ settings.thresholdCm >= 0
    /\ settings.emptyThresholdCm >= 0
    /\ settings.alertSustainSec >= 0

\* an update with emptyThresholdCm = -4 changed the stored value to 0
C23_Witness ==
  \E th \in Threads :
    /\ handlers[th].pc = "settings_sustain"
    /\ handlers[th].body.emptyThresholdCm = Num(-4) /\ handlers[th].changed
    /\ settings.emptyThresholdCm = 0

\* C24: with the readings of a device handled by concurrent threads, at most
\* one reading of a full dwell passes the firing test, so the dwell produces
\* at most one notifier message and one notifyFull command
C24_OncePerDwellConcurrent ==
  \A d \in Devices :
    dwell[d].band = "full" =>
      dwell[d].fires
        + Cardinality({ th \in Threads :
                          /\ handlers[th].deviceId = d /\ handlers[th].live
                          /\ handlers[th].pc \in {"discord_send", "enqueue_command"} }) <= 1

\* C25: once two enqueue_command calls for a device have both returned,
\* however their statements interleaved, the two commandIds differ, the
\* counter has advanced by 2 and the pending command is the one with the
\* larger commandId
C25_InterleavedEnqueues ==
  \A d \in Devices :
    (Quiet /\ Len(issued[d]) = 2) =>
      /\ issued[d][1] # issued[d][2]
      /\ device_command_seq[d] = 2
      /\ device_commands[d] # None
      /\ Pending(d).commandId =
           IF issued[d][1] > issued[d][2] THEN issued[d][1] ELSE issued[d][2]

\* C26: the since/sent values of a device change, and a notify command is
\* enqueued for it, only in a step that evaluates one of its readings,
\* however much time passes; and with a sustain duration above 0 the reading
\* that starts a condition does not fire it
C26_OnlyReadingsChangeAlerts ==
  [][/\ \A d \in Devices :
          (AlertState(d)' # AlertState(d) \/ dwell'[d].fires # dwell[d].fires) =>
            \E th \in Threads :
              /\ Moves(th) /\ handlers[th].route = "sensor"
              /\ handlers[th].deviceId = d /\ handlers[th].band \in AlertBands \cup {"normal"}
     /\ \A th \in Threads :
          (Fires(th) /\ handlers[th].sustain > 0) => handlers[th].since < handlers[th].now]_vars

\* time has passed since the one reading that started a full condition and
\* nothing was enqueued
C26_Witness ==
  /\ clock = MaxTime /\ Quiet
  /\ alert_below_since["A"] = Some(0) /\ ~alert_sent["A"]
  /\ device_command_seq["A"] = 0

\* the lastId a poll carries: the integer of the query argument, 0 without one
LastIdOf(raw) == IF raw.kind = "str" /\ raw.parses THEN raw.num ELSE 0

\* C27: a poll with deviceId and lastId returns the device's pending command
\* if and only if one exists and its commandId is strictly greater than
\* lastId, and the empty object otherwise; a poll changes neither the pending
\* commands nor the counters; a device that polls with the id of the last
\* command it received only ever receives a command with a greater id
C27_PollReturnsNewerOnly ==
  [][/\ \A dev \in Devices : \A raw \in LastIds :
          command_get(dev, raw) =>
            /\ (call'.result # None) <=>
                 (device_commands[dev] # None /\ Pending(dev).commandId > LastIdOf(raw))
            /\ call'.result # None => call'.result = device_commands[dev]
            /\ UNCHANGED << device_commands, device_command_seq >>
     /\ \A dev \in Devices :
          device_last_id'[dev] # device_last_id[dev] =>
            /\ UNCHANGED << device_commands, device_command_seq >>
            /\ device_last_id'[dev] > device_last_id[dev]
            /\ device_last_id'[dev] = Pending(dev).commandId]_vars

\* device A received command 2 and is not handed the older command 1 that an
\* interleaved enqueue left pending
C27_Witness ==
  /\ device_last_id["A"] = 2
  /\ device_commands["A"] # None /\ Pending("A").commandId = 1
  /\ call.fn = "command_get" /\ call.args = << "A", NumStr(2) >> /\ call.result = None

\* C28: a settings update answered with 400 leaves the in-memory settings as
\* they were, also when another field of the request was valid
C28_RejectedUpdateKeepsSettings ==
  [][\A th \in Threads :
       LET h == handlers[th]
       IN /\ (h.pc = "settings_empty" /\ Returns(th)) => ~h.changed
          /\ (h.pc = "settings_sustain" /\ Returns(th)
              /\ SettingsStatus(h, "alertSustainSec") = 400) => ~h.changed]_vars

\* C29: a setAngle command enqueued by a dashboard post carries a target in
\* 0..180, with out-of-range targets clamped to the nearer end; open and
\* activate without a target enqueue 90, close and deactivate 0; a rejected
\* post leaves the pending commands and the counters as they were
C29_PostedAnglesClamped ==
  [][\A th \in Threads :
       /\ \A req \in PostRequests :
            command_api(th, req) =>
              LET t == req.targetPosition
                  accepted == req.auth /\ req.deviceId # ""
                  untargeted == t.kind \in {"absent", "null"}
                  payload == handlers'[th].payload
              IN /\ UNCHANGED << device_commands, device_command_seq >>
                 /\ CommandStatus(req) # 200 => handlers' = handlers
                 /\ payload.action = "setAngle" =>
                      /\ payload.targetPosition # None
                      /\ payload.targetPosition[1] \in 0..180
                 /\ (accepted /\ req.action \in {"", "setAngle"} /\ t.parses) =>
                      payload = Payload("setAngle",
                                        Some(IF t.num < 0 THEN 0
                                             ELSE IF t.num > 180 THEN 180 ELSE t.num))
                 /\ (accepted /\ req.action \in {"open", "activate"} /\ untargeted) =>
                      payload = Payload("setAngle", Some(90))
                 /\ (accepted /\ req.action \in {"close", "deactivate"} /\ untargeted) =>
                      payload = Payload("setAngle", Some(0))
       /\ (handlers[th].pc = "enqueue_store" /\ Moves(th)) =>
            device_commands'[handlers[th].deviceId] =
              Some(Command(handlers[th].deviceId, handlers[th].cmd_id,
                           handlers[th].payload))]_vars

\* a target of 200 was clamped to 180 in A's second command
C29_Witness ==
  /\ device_commands["A"] # None
  /\ Pending("A").commandId = 2
  /\ Pending("A").action = "setAngle"
  /\ Pending("A").targetPosition = Some(180)

====
